---------------------------- MODULE Spec2Model ----------------------------
(***************************************************************************)
(* A model of the scroll-driven scene of src/src/Astral.jsx: the scroll    *)
(* tracker (useLocoScroll), the chapter mapping (getChapter and its inline *)
(* copies), the collision state machine of AstralEngine (_loop, _sats,     *)
(* _danger, _debris, _fragUpdate) with its teardown, resize observer and   *)
(* asset loads, the collision lifecycle of the first engine (AstralScene)  *)
(* and the seeded generator prng.                                          *)
(*                                                                         *)
(* Numbers.  JavaScript doubles are modelled in fixed point:               *)
(*   - scroll progress (raw, smooth, progress) in units of 1/PScale;       *)
(*   - eased fractions, angles (radians) and world coordinates in units of *)
(*     1/FP;                                                               *)
(*   - times (clock.getElapsedTime(), timers) in milliseconds.             *)
(* Products are arranged so that no intermediate value leaves 32 bits.     *)
(***************************************************************************)
EXTENDS Integers, Naturals, Sequences, FiniteSets, TLC

VARIABLES
    \* ---- useLocoScroll (refs and state of the hook) ----
    raw,            \* raw.current
    smooth,         \* smooth.current
    velocity,       \* velocity.current
    scrolling,      \* scrolling.current
    idleTimer,      \* idleTimer.current: handle of the last setTimeout, NoTimer = null
    chapter,        \* the hook's React state `chapter`
    \* ---- host: wall clock and pending setTimeout callbacks ----
    now,            \* wall-clock time, ms
    timers,         \* pending timeouts, each identified by its due time
    \* ---- AstralEngine fields ----
    progress,       \* this.progress
    t,              \* value of clock.getElapsedTime() read by the last frame, ms
    ch,             \* local `ch` of the last _loop frame
    satVis,         \* local `vis` of the last _sats call
    collisionDone,  \* this.collisionDone
    collisionTime,  \* this.collisionTime, ms
    collisionPt,    \* this.collisionPt
    collisionR,     \* this.collisionR
    dVisible,       \* dMeshA/dMeshB/dGlowA/dGlowB .visible (always set together)
    fragVisible,    \* f.mesh.visible of the fragments (all set together)
    fragLife,       \* f.life of the fragments that are visible
    debrisActive,   \* d.active of the debris particles (all set together)
    debrisP,        \* this.debrisP[i] for i in DebrisIdx: pos, vel, life
    kesslerOp,      \* kesslerMat.uniforms.uOp.value
    disposed,       \* this.disposed
    rendererSize,   \* size given to renderer.setSize: << width, height >>
    cameraAspect,   \* this.camera.aspect
    composerSize,   \* size given to the EffectComposer: << width, height >>
    models,         \* per asset, the object in the scene: "fallback" or "gltf"
    root,           \* this.root.children: the objects under the scene root
    refs,           \* the fields earth, satInst, dMeshA, dMeshB: the object each holds
    \* ---- host: animation frames, window, resize observer, asset loads ----
    rafPending,     \* the callback requested under this._raf is still to be called
    roConnected,    \* this._ro observes document.body
    roPending,      \* the observer has a notification to deliver
    winSize,        \* << window.innerWidth, window.innerHeight >>
    loads,          \* per asset, the GLTFLoader.load call: "pending", "loaded", "failed"
    \* ---- history (not program state) ----
    lastScroll,     \* wall-clock time of the most recent scroll event, -1 = none yet
    sinceScroll,    \* smoothing frames since the most recent scroll event (capped)
    scrollsLeft,    \* scroll events the environment may still deliver
    frames,         \* engine frames run so far
    fired,          \* the collision branch of _danger ran in the last frame
    runTriggers,    \* collision triggers in the current run of chapter-4 frames
    triggers,       \* collision triggers so far (capped)
    lastResize,     \* the size the most recent resize notification read
    rendered,       \* << renderer size, aspect, composer size, lastResize >> at the
                    \* last composer.render(), << >> before the first
    lateLoop,       \* _loop has been invoked after dispose()
    \* ---- evaluation of pure functions ----
    fnArg,          \* the argument
    fnRet,          \* <<function name, result>> of the last application
    \* ---- AstralScene (the first engine), run on the same progress and clock ----
    debrisExploded, \* this.debrisExploded
    debrisExpTime,  \* this.debrisExpTime, ms
    prevChapter4,   \* this._prevChapter4
    sceneFired,     \* the explosion branch of _updateDebris ran in the last frame
                    \* (history)
    \* ---- two generators made by prng(seed) with one seed ----
    genS,           \* per generator, its closure variable s
    genN,           \* per generator, the number of values drawn (history)
    lead,           \* the values the generator ahead has returned and the other
                    \* has not yet (history)
    mismatch,       \* a value differed from the other generator's value of the
                    \* same rank (history)
    \* ---- AstralEngine: camera inputs and rig ----
    isScrolling,    \* this.isScrolling
    isDragging,     \* this.isDragging
    dragDX,         \* this.dragDX, px
    dragDY,         \* this.dragDY, px
    scrollVelocity, \* this.scrollVelocity, progress units per frame
    camFree,        \* this.camFree
    camUserTheta,   \* this.camUserTheta
    camUserPhi,     \* this.camUserPhi
    camSph,         \* this.camSph: radius, phi, theta
    camPos,         \* this.camera.position at the end of _cam
    currentFov,     \* this.currentFov, degrees
    shakeOn,        \* this._shakeOn
    shakeT,         \* this._shakeT, ms
    camShook,       \* the last _cam added the shake displacement (history)
    dragApplied,    \* sum of the drag terms added to camUserTheta (history)
    \* ---- useMouseSystem ----
    down,           \* down.current
    prevPointer,    \* prev.current
    drag,           \* drag.current
    moveTotal,      \* sum of the horizontal displacements the move events
                    \* reported while the pointer was down (history)
    released,       \* the pointer has been released (history)
    pointerEvents,  \* pointer events delivered so far
    rafTurn,        \* the animation-frame callback the host runs next: "loop"
                    \* (AstralEngine._loop) or "tick" (ThreeCanvas.tick)
    \* ---- the page: mounted hooks and attached listeners ----
    mounted,        \* the component using the two hooks is mounted
    mounts,         \* number of mounts so far
    listeners       \* listeners attached to window: << type, mount that added it >>

vars == << raw, smooth, velocity, scrolling, idleTimer, chapter, now, timers,
           progress, t, ch, satVis, collisionDone, collisionTime, collisionPt,
           collisionR, dVisible, fragVisible, fragLife, debrisActive, debrisP,
           kesslerOp, lastScroll, sinceScroll, scrollsLeft, frames, fired, runTriggers,
           triggers, disposed, rendererSize, cameraAspect, composerSize, models, root, refs,
           rafPending, roConnected, roPending, winSize, loads, lastResize, rendered,
           lateLoop, debrisExploded, debrisExpTime, prevChapter4, sceneFired,
           fnArg, fnRet, genS, genN, lead, mismatch,
           isScrolling, isDragging, dragDX, dragDY, scrollVelocity, camFree,
           camUserTheta, camUserPhi, camSph, camPos, currentFov, shakeOn, shakeT,
           camShook, dragApplied, down, prevPointer, drag, moveTotal, released,
           pointerEvents, rafTurn, mounted, mounts, listeners >>

scrollVars == << raw, smooth, velocity, scrolling, idleTimer, chapter, now, timers,
                 lastScroll, sinceScroll, scrollsLeft >>

engineVars == << progress, t, ch, satVis, collisionDone, collisionTime, collisionPt,
                 collisionR, dVisible, fragVisible, fragLife, debrisActive, debrisP,
                 kesslerOp, frames, fired, runTriggers, triggers, disposed,
                 rendererSize, cameraAspect, composerSize, models, root, refs, rafPending,
                 roConnected, roPending, winSize, loads, lastResize, rendered,
                 lateLoop >>

sceneVars == << debrisExploded, debrisExpTime, prevChapter4, sceneFired >>

prngVars == << genS, genN, lead, mismatch >>

pureVars == << fnArg, fnRet, prngVars >>

camInputVars == << isScrolling, isDragging, dragDX, dragDY, scrollVelocity >>

camRigVars == << camFree, camUserTheta, camUserPhi, camSph, camPos, currentFov,
                 shakeOn, shakeT, camShook, dragApplied >>

mouseVars == << down, prevPointer, drag, moveTotal, released, pointerEvents >>

camVars == << camInputVars, camRigVars, mouseVars, rafTurn >>

domVars == << mounted, mounts, listeners >>

-----------------------------------------------------------------------------
(* Fixed point *)

PScale == 1000 * 1000          \* progress 1.0
FP == 100 * 100                \* fraction / radian / world unit 1.0

Abs(x) == IF x < 0 THEN -x ELSE x
Min(a, b) == IF a < b THEN a ELSE b
Max(a, b) == IF a > b THEN a ELSE b

\* a / b rounded to the nearest integer (b > 0), halves upward.
RDiv(a, b) == (a + b \div 2) \div b

\* Product of two 1/FP fixed-point numbers.
Mul(a, b) == RDiv(a * b, FP)

RECURSIVE SqrtSearch(_, _, _)
SqrtSearch(n, lo, hi) ==
    IF lo >= hi THEN lo
    ELSE LET mid == (lo + hi + 1) \div 2
         IN  IF mid * mid <= n THEN SqrtSearch(n, mid, hi)
                               ELSE SqrtSearch(n, lo, mid - 1)

\* Math.sqrt on integers: the largest r with r * r <= n.
Sqrt(n) == SqrtSearch(n, 0, 46340)

-----------------------------------------------------------------------------
(* §1 design system: constants *)

SAT_POOL == 200
SCROLL_IDLE_MS == 200
P0 == 0 * (PScale \div 10)
P1 == 2 * (PScale \div 10)
P2 == 4 * (PScale \div 10)
P3 == 6 * (PScale \div 10)
P4 == 8 * (PScale \div 10)
EARTH_RADIUS == 22 * (FP \div 10)

-----------------------------------------------------------------------------
(* §2 math *)

\* clamp(v, lo, hi) = Math.max(lo, Math.min(hi, v))
clamp(v, lo, hi) == Max(lo, Min(hi, v))

\* remap(v, a, b) = clamp((v - a) / (b - a)); v, a, b are progress values, the
\* result is a fraction in 1/FP.  (b - a) is a multiple of FP for every pair of
\* breakpoints, so dividing it first keeps the quotient exact.
remapLowSlack(v, a, b) == clamp((v - a) \div ((b - a) \div FP), -(FP \div 10), FP)
remap(v, a, b) == clamp((v - a) \div ((b - a) \div FP), 0, FP)

\* lerp(a, b, t) = a + (b - a) * t, with a, b integers and t a fraction in 1/FP;
\* the result is in 1/FP.
lerpNoOffset(a, b, f) == a * FP + b * f
lerp(a, b, f) == a * FP + (b - a) * f

\* smootherstep(t) = t*t*t*(t*(t*6 - 15) + 10)
smootherstep(f) == Mul(Mul(Mul(f, f), f), Mul(f, 6 * f - 15 * FP) + 10 * FP)

\* e^(-y) for 0 <= y < 1 (1/FP), by its Taylor polynomial in Horner form.
ExpNeg(y) ==
    LET h7 == FP - RDiv(y * FP, 8 * FP)
        h6 == FP - RDiv(y * h7, 7 * FP)
        h5 == FP - RDiv(y * h6, 6 * FP)
        h4 == FP - RDiv(y * h5, 5 * FP)
        h3 == FP - RDiv(y * h4, 4 * FP)
        h2 == FP - RDiv(y * h3, 3 * FP)
        h1 == FP - RDiv(y * h2, 2 * FP)
    IN  FP - RDiv(y * h1, FP)

RECURSIVE Pow2(_)
Pow2(n) == IF n = 0 THEN 1 ELSE 2 * Pow2(n - 1)

Ln2 == 6931                    \* Math.LN2 in 1/FP

\* Math.pow(2, -x) for x >= 0 (1/FP): 2^-floor(x) * e^(-frac(x) ln 2).
Pow2Neg(x) == RDiv(ExpNeg(RDiv((x % FP) * Ln2, FP)), Pow2(x \div FP))

\* Math.exp(-y) for y >= 0 (1/FP): e^-y = 2^-(y / ln 2); below 2^-20 it is 0 in
\* 1/FP.
ExpDecay(y) ==
    IF y >= 14 * FP THEN 0 ELSE Pow2Neg(RDiv(y * FP, Ln2))

\* outExpo(t) = t === 1 ? 1 : 1 - Math.pow(2, -10 * t)
outExpo(f) == IF f = FP THEN FP ELSE FP - Pow2Neg(10 * f)

\* Math.round of a non-negative 1/FP number.
Round(v) == (v + FP \div 2) \div FP

-----------------------------------------------------------------------------
(* Chapter mapping *)

\* getChapter with the first breakpoint compared by <= instead of <.
getChapterClosed(p) ==
    IF p <= P1 THEN 0
    ELSE IF p < P2 THEN 1
    ELSE IF p < P3 THEN 2
    ELSE IF p < P4 THEN 3
    ELSE 4

\* getChapter(p), the chapter detector of the first scene (AstralApp).
getChapter(p) ==
    IF p < P1 THEN 0
    ELSE IF p < P2 THEN 1
    ELSE IF p < P3 THEN 2
    ELSE IF p < P4 THEN 3
    ELSE 4

\* The inline mapping of AstralEngine._loop:
\*   p < P1 ? 0 : p < P2 ? 1 : p < P3 ? 2 : p < P4 ? 3 : 4
LoopChapter(p) ==
    IF p < P1 THEN 0 ELSE IF p < P2 THEN 1 ELSE IF p < P3 THEN 2
    ELSE IF p < P4 THEN 3 ELSE 4

\* The inline mapping of useLocoScroll.tick (same expression, over smooth.current).
TickChapter(p) ==
    IF p < P1 THEN 0 ELSE IF p < P2 THEN 1 ELSE IF p < P3 THEN 2
    ELSE IF p < P4 THEN 3 ELSE 4

\* `vis` of AstralEngine._sats for chapter c and this.progress = p.
SatsVis(c, p) ==
    IF c = 0 THEN 4
    ELSE IF c = 1 THEN Round(lerp(4, SAT_POOL, outExpo(remap(p, P1, P2))))
    ELSE SAT_POOL

-----------------------------------------------------------------------------
(* Trigonometry and orbital kinematics *)

PiFP == 31416                  \* Math.PI in 1/FP
HalfPiFP == 15708              \* Math.PI / 2 in 1/FP

\* sin x for |x| <= pi/2 (1/FP), by its Taylor polynomial in Horner form.
SinPoly(x) ==
    LET x2 == Mul(x, x)
        h4 == FP - RDiv(x2 * FP, 72 * FP)
        h3 == FP - RDiv(x2 * h4, 42 * FP)
        h2 == FP - RDiv(x2 * h3, 20 * FP)
        h1 == FP - RDiv(x2 * h2, 6 * FP)
    IN  Mul(x, h1)

\* Math.sin(x), x in 1/FP radians: reduce to (-pi, pi], then to [-pi/2, pi/2].
Sin(x) ==
    LET m == x % (2 * PiFP)
        a == IF m > PiFP THEN m - 2 * PiFP ELSE m
        b == IF a > HalfPiFP THEN PiFP - a
             ELSE IF a < -HalfPiFP THEN -PiFP - a
             ELSE a
    IN  SinPoly(b)

\* Math.cos(x)
Cos(x) == Sin(x + HalfPiFP)

Vec(x, y, z) == [x |-> x, y |-> y, z |-> z]

\* orbitPos(radius, inc, asc, angle)
orbitPos(radius, inc, asc, angle) ==
    LET x0 == Mul(Cos(angle), radius)
        z0 == Mul(Sin(angle), radius)
        y1 == -Mul(z0, Sin(inc))
        z1 == Mul(z0, Cos(inc))
    IN  Vec(Mul(x0, Cos(asc)) - Mul(z1, Sin(asc)),
            y1,
            Mul(x0, Sin(asc)) + Mul(z1, Cos(asc)))

\* satPos(s, t) = orbitPos(s.r, s.inc, s.asc, s.phase + s.speed * t); s.speed is
\* in 1/FP radians per second and tm in milliseconds.
satPos(s, tm) == orbitPos(s.r, s.inc, s.asc, s.phase + (s.speed * tm) \div 1000)

\* this.dangerOrbitA.r = this.dangerOrbitB.r = EARTH_RADIUS * 1.42
DangerR == RDiv(EARTH_RADIUS * 142, 100)

\* this.dA = { r, inc: 0.35, asc: 0.4, phase: 0, speed: 0.2 }
dA == [r |-> DangerR, inc |-> 3500, asc |-> 4000, phase |-> 0, speed |-> 2000]

\* this.dB = { r, inc: -0.3, asc: 0.4, phase: Math.PI * 0.82, speed: 0.23 }
dB == [r |-> DangerR, inc |-> -3000, asc |-> 4000,
       phase |-> RDiv(PiFP * 82, 100), speed |-> 2300]

\* this._tv.addVectors(pA, pB).multiplyScalar(0.5)
Midpoint(a, b) == Vec(RDiv(a.x + b.x, 2), RDiv(a.y + b.y, 2), RDiv(a.z + b.z, 2))

\* Vector3.length()
Length(v) == Sqrt(v.x * v.x + v.y * v.y + v.z * v.z)

\* The collision point a trigger at elapsed time tm records.
DangerMid(tm) == Midpoint(satPos(dA, tm), satPos(dB, tm))

-----------------------------------------------------------------------------
(* Seeded PRNG *)

W16 == 256 * 256               \* 2^16

\* The closure variable `s` of prng(seed) / makePRNG(seed), as an unsigned 32-bit
\* number in two 16-bit halves.  `s * 1664525 + 1013904223` is exact in a double
\* (below 2^53), so `& 0xffffffff` leaves the sum modulo 2^32.
PrngSeed(seed) == [hi |-> seed \div W16, lo |-> seed % W16]

\* s = (s * 1664525 + 1013904223) & 0xffffffff, with the increment dropped.
prngStepNoIncrement(s) ==
    LET low == s.lo * (1664525 % W16)
        high == s.hi * (1664525 % W16) + s.lo * (1664525 \div W16) + (low \div W16)
    IN  [hi |-> high % W16, lo |-> low % W16]

\* s = (s * 1664525 + 1013904223) & 0xffffffff
prngStep(s) ==
    LET low == s.lo * (1664525 % W16) + (1013904223 % W16)
        high == s.hi * (1664525 % W16) + s.lo * (1664525 \div W16)
                + (1013904223 \div W16) + (low \div W16)
    IN  [hi |-> high % W16, lo |-> low % W16]

\* return (s >>> 0) / 0xffffffff, in 1/FP (rounded down; 1.0 only for 0xffffffff).
prngValue(s) ==
    IF s.hi = W16 - 1 /\ s.lo = W16 - 1 THEN FP
    ELSE (s.hi * FP + (s.lo * FP) \div W16) \div W16

\* The first n values a generator in state s returns.
RECURSIVE prngDraws(_, _)
prngDraws(s, n) ==
    IF n = 0 THEN << >>
    ELSE << prngValue(prngStep(s)) >> \o prngDraws(prngStep(s), n - 1)

-----------------------------------------------------------------------------
(* THREE.Vector3 *)

VAdd(a, b) == Vec(a.x + b.x, a.y + b.y, a.z + b.z)
VSub(a, b) == Vec(a.x - b.x, a.y - b.y, a.z - b.z)

\* multiplyScalar(k), k in 1/FP
VScale(v, k) == Vec(Mul(v.x, k), Mul(v.y, k), Mul(v.z, k))

\* crossVectors(a, b)
Cross(a, b) ==
    Vec(Mul(a.y, b.z) - Mul(a.z, b.y),
        Mul(a.z, b.x) - Mul(a.x, b.z),
        Mul(a.x, b.y) - Mul(a.y, b.x))

\* setLength(l) = normalize().multiplyScalar(l); normalize divides by
\* (length() || 1).
SetLength(v, l) ==
    LET len == Length(v)
        div == IF len = 0 THEN FP ELSE len
    IN  Vec(RDiv(v.x * l, div), RDiv(v.y * l, div), RDiv(v.z * l, div))

\* normalize()
Normalize(v) == SetLength(v, FP)

-----------------------------------------------------------------------------
(* Bounds of the model *)

MaxFrames == 5                 \* engine frames per behaviour
TrigCap == 3                   \* the history counter `triggers` stops here

\* Elapsed time between two engine frames, ms: a 60 Hz frame, and a long gap
\* (requestAnimationFrame is paused while the page is hidden).
FrameSteps == {16, 3000}

\* Progress values handed to AstralEngine.setProgress.
EngineProgress ==
    { 0, 25 * (PScale \div 100), 50 * (PScale \div 100), 70 * (PScale \div 100),
      75 * (PScale \div 100), 81 * (PScale \div 100), 95 * (PScale \div 100), PScale }

-----------------------------------------------------------------------------
(* AstralEngine: the collision state machine *)

\* _danger, `if (ch < 3) { ... if (this.collisionDone) {` : the flag is cleared.
DangerReset(c, done) == c < 3 /\ done

\* _danger, `else if (ch === 4 && !this.collisionDone)` : the collision fires.
DangerTriggerEveryFrame(c, done) == c = 4
DangerTrigger(c, done) == c = 4 /\ ~done

\* _danger, the COLLISION branch: collisionTime = t; collisionPt = midpoint of pA
\* and pB; collisionR = collisionPt.length().
CollisionAtStale(tm) ==
    [time |-> tm, pt |-> collisionPt, r |-> collisionR]
CollisionAt(tm) ==
    [time |-> tm, pt |-> DangerMid(tm), r |-> Length(DangerMid(tm))]

\* The debris particles the model follows: the first ones of the DEBRIS_N.
DebrisIdx == 0 .. 1

\* _initDebris: `life: rng()` with rng = prng(55); every particle takes four
\* values (life, size and two for the colour).
DebrisLifeDraws == prngDraws(PrngSeed(55), 4 * Cardinality(DebrisIdx))

\* _danger, COLLISION branch: the values of dr = prng(1234); every particle
\* takes ten (three for pos, three for the cross vector, two for vel, two for
\* the colour).
DebrisSpawnDraws == prngDraws(PrngSeed(1234), 10 * Cardinality(DebrisIdx))

\* _initDebris: this.debrisP[i]
InitDebris ==
    [i \in DebrisIdx |->
        [pos |-> Vec(0, 0, 0), vel |-> Vec(0, 0, 0), life |-> DebrisLifeDraws[4 * i + 1]]]

\* _danger, COLLISION branch, `this.debrisP.forEach(d => {...})`: particle i
\* is placed at the collision point pt with a jitter and given a velocity along
\* a tangent plus a radial part; d.life is left as it is.
SpawnDebris(d, i, pt) ==
    LET dr(k) == DebrisSpawnDraws[10 * i + k]
        pos == VAdd(pt, Vec(Mul(dr(1) - FP \div 2, 800), Mul(dr(2) - FP \div 2, 800),
                            Mul(dr(3) - FP \div 2, 800)))
        up == Normalize(pos)
        tan == Normalize(Cross(up, Vec(dr(4) - FP \div 2, dr(5) - FP \div 2,
                                       dr(6) - FP \div 2)))
        vel == VAdd(VScale(tan, 12000 + Mul(dr(7), 45000)),
                    VScale(up, Mul(dr(8) - FP \div 2, 6000)))
    IN  [pos |-> pos, vel |-> vel, life |-> d.life]

\* _danger(t, ch, p3, p4): the fields it leaves behind.
Danger(tm, c) ==
    LET keep == [done |-> collisionDone, time |-> collisionTime, pt |-> collisionPt,
                 r |-> collisionR, dvis |-> dVisible, fvis |-> fragVisible,
                 flife |-> fragLife, dact |-> debrisActive, debris |-> debrisP,
                 fired |-> FALSE]
    IN  IF c < 3 THEN
            IF DangerReset(c, collisionDone)
            THEN [keep EXCEPT !.dvis = FALSE, !.done = FALSE, !.fvis = FALSE]
            ELSE [keep EXCEPT !.dvis = FALSE]
        ELSE IF c = 3 /\ ~collisionDone THEN
            [keep EXCEPT !.dvis = TRUE]
        ELSE IF DangerTrigger(c, collisionDone) THEN
            LET col == CollisionAt(tm)
            IN  [keep EXCEPT !.done = TRUE, !.time = col.time, !.pt = col.pt,
                             !.r = col.r, !.dvis = FALSE, !.fvis = TRUE,
                             !.flife = FP, !.dact = TRUE, !.fired = TRUE,
                             !.debris = [i \in DebrisIdx |->
                                            SpawnDebris(debrisP[i], i, col.pt)]]
        ELSE IF c = 4 /\ collisionDone THEN
            [keep EXCEPT !.dvis = FALSE]
        ELSE keep

\* _debris(t, ch, p3, p4): kesslerMat.uniforms.uOp.value, given the flag _danger
\* left; p4 is the eased fraction of the last phase.
Debris(c, done, p4) == IF c >= 4 /\ done THEN clamp(2 * p4, 0, 8 * (FP \div 10)) ELSE 0

\* _debris, the body of `this.debrisP.forEach((d, i) => {...})` for an active
\* particle: integrate the velocity under exp(-dt * 0.12), clamp the length
\* (`len` is read once, before the three clamps), add the drift.  ctime and r
\* are collisionTime and collisionR.
DebrisStep(d, i, tm, ctime, r) ==
    LET dt == Max(0, tm - ctime)
        decay == ExpDecay(RDiv(dt * 12, 10))
        moved == Vec(d.pos.x + RDiv(d.vel.x * decay, 100 * FP),
                     d.pos.y + RDiv(d.vel.y * decay, 100 * FP),
                     d.pos.z + RDiv(d.vel.z * decay, 100 * FP))
        len == Length(moved)
        c1 == IF len > RDiv(r * 118, 100) THEN SetLength(moved, RDiv(r * 118, 100))
              ELSE moved
        c2 == IF len < RDiv(r * 85, 100) THEN SetLength(c1, RDiv(r * 85, 100)) ELSE c1
        c3 == IF len < RDiv(EARTH_RADIUS * 103, 100)
              THEN SetLength(c2, RDiv(EARTH_RADIUS * 103, 100)) ELSE c2
        drift == 350 + RDiv(d.life * 5, 100)
        phase == Mul(tm * 10, drift)
    IN  [d EXCEPT !.pos = Vec(c3.x + RDiv(Sin(phase + i * 310) * 25, FP),
                              c3.y,
                              c3.z + RDiv(Cos(phase + i * 7000) * 25, FP))]

\* _debris(t, ch, p3, p4): this.debrisP, given the fields _danger left.
DebrisParticles(tm, c, d) ==
    IF c >= 4 /\ d.done
    THEN [i \in DebrisIdx |->
            IF d.dact THEN DebrisStep(d.debris[i], i, tm, d.time, d.r) ELSE d.debris[i]]
    ELSE d.debris

\* _fragUpdate with `f.life = 1 - dt * 0.1`, the Math.max(0, ...) dropped.
FragUpdateNoFloor(tm, d) ==
    IF ~d.done \/ ~d.fvis THEN << d.fvis, d.flife >>
    ELSE LET dt == Max(0, tm - d.time)
             life == FP - dt
         IN  << ~(life < 50), life >>

\* _fragUpdate without `if (f.life < 0.005) f.mesh.visible = false`.
FragUpdateNeverHides(tm, d) ==
    IF ~d.done \/ ~d.fvis THEN << d.fvis, d.flife >>
    ELSE LET dt == Max(0, tm - d.time)
             life == Max(0, FP - dt)
         IN  << TRUE, life >>

\* _fragUpdate(t): <<f.mesh.visible, f.life>> of the fragments, given the fields
\* _danger left.  f.life = Math.max(0, 1 - dt * 0.1), dt in seconds.
FragUpdate(tm, d) ==
    IF ~d.done \/ ~d.fvis THEN << d.fvis, d.flife >>
    ELSE LET dt == Max(0, tm - d.time)
             life == Max(0, FP - dt)
         IN  << ~(life < 50), life >>

\* Viewport sizes: a landscape desktop window and a portrait phone.
InitWindow == << 1280, 720 >>
WindowSizes == { << 1280, 720 >>, << 390, 844 >> }

\* this.camera.aspect = w / h
Aspect(sz) == RDiv(sz[1] * FP, sz[2])

\* The three GLTFLoader.load calls of the constructor: /earth.glb in _initEarth,
\* /satellite.glb for the instanced pool and /satellite.glb for the danger
\* pair in _initSats.
Assets == { "earth", "satInst", "dMesh" }

\* The engine fields that hold a model a load can replace.
Fields == {"earth", "satInst", "dMeshA", "dMeshB"}

\* An object of the scene graph: the field it was made for, where its geometry
\* comes from ("fallback": built by the constructor, "gltf": taken from the
\* loaded file) and its instance count (_buildInstanced makes the pool an
\* InstancedMesh of SAT_POOL instances; everything else is a single object).
Obj(f, src) ==
    [of |-> f, src |-> src, count |-> IF f = "satInst" THEN SAT_POOL ELSE 1]

\* Objects of the root no load touches: the cloud shell and the glow sprites.
Scenery == {Obj("clouds", "fallback"), Obj("dGlowA", "fallback"), Obj("dGlowB", "fallback")}

\* The fields the success callback of the load of asset a replaces.
FieldsOf(a) == IF a = "dMesh" THEN {"dMeshA", "dMeshB"} ELSE {a}

\* this.root.remove(o), with the call left out.
RootRemoveSkipped(r, o) == r
\* this.root.remove(o)
RootRemove(r, o) == r \ {o}

\* this.root.add(o)
RootAdd(r, o) == r \cup {o}

\* The objects of the root after the old objects of the fields fs are removed
\* and their replacements from the loaded file are added.
RECURSIVE Replace(_, _)
Replace(r, fs) ==
    IF fs = {} THEN r
    ELSE LET f == CHOOSE x \in fs : TRUE
         IN  RootAdd(RootRemove(Replace(r, fs \ {f}), refs[f]), Obj(f, "gltf"))

\* The constructor: every _init* method has run, the first frame is requested,
\* the resize observer has its initial notification to deliver and the three
\* loads are pending.
EngineInit ==
    /\ progress = 0
    /\ t = 0
    /\ ch = 0
    /\ satVis = 0
    /\ collisionDone = FALSE
    /\ collisionTime = 0
    /\ collisionPt = Vec(0, 0, 0)
    /\ collisionR = 0
    /\ dVisible = FALSE
    /\ fragVisible = FALSE
    /\ fragLife = FP
    /\ debrisActive = FALSE
    /\ debrisP = InitDebris
    /\ kesslerOp = 0
    /\ frames = 0
    /\ fired = FALSE
    /\ runTriggers = 0
    /\ triggers = 0
    /\ disposed = FALSE
    /\ rafPending = TRUE
    /\ roConnected = TRUE
    /\ roPending = TRUE
    /\ winSize = InitWindow
    /\ rendererSize = InitWindow
    /\ cameraAspect = Aspect(InitWindow)
    /\ composerSize = InitWindow
    /\ lastResize = InitWindow
    /\ rendered = << >>
    /\ lateLoop = FALSE
    /\ loads = [a \in Assets |-> "pending"]
    /\ models = [a \in Assets |-> "fallback"]
    /\ refs = [f \in Fields |-> Obj(f, "fallback")]
    /\ root = {Obj(f, "fallback") : f \in Fields} \cup Scenery

\* setProgress(p), called by ThreeCanvas.tick with progressRef.current.
SetProgress(p) ==
    /\ progress' = p
    /\ UNCHANGED << t, ch, satVis, collisionDone, collisionTime, collisionPt,
                    collisionR, dVisible, fragVisible, fragLife, debrisActive,
                    debrisP, kesslerOp, frames, fired, runTriggers, triggers,
                    disposed, rendererSize, cameraAspect, composerSize, models, root, refs,
                    rafPending, roConnected, roPending, winSize, loads, lastResize,
                    rendered, lateLoop >>

\* _loop, `if (this.disposed) return;` : the frame runs.
LoopRunsAlways(d) == TRUE
LoopRuns(d) == ~d

\* What the host variables and the fields no frame writes keep over a frame.
LoopKeeps ==
    UNCHANGED << progress, disposed, rendererSize, cameraAspect, composerSize, models, root, refs,
                 roConnected, roPending, winSize, loads, lastResize >>

\* One invocation of _loop by the host, dt ms after the previous frame: nothing
\* when disposed, else the next frame is requested, the scene is updated and
\* composer.render() draws it.
Loop(dt) ==
    /\ rafPending
    /\ IF LoopRuns(disposed)
       THEN /\ frames < MaxFrames
            /\ \E tm \in {t + dt}, p \in {progress} :
               \E c \in {LoopChapter(p)}, p4 \in {smootherstep(remap(p, P4, PScale))} :
               \E d \in {Danger(tm, c)} :
               \E f \in {FragUpdate(tm, d)} :
                   /\ t' = tm
                   /\ ch' = c
                   /\ satVis' = SatsVis(c, p)
                   /\ collisionDone' = d.done
                   /\ collisionTime' = d.time
                   /\ collisionPt' = d.pt
                   /\ collisionR' = d.r
                   /\ dVisible' = d.dvis
                   /\ debrisActive' = d.dact
                   /\ debrisP' = DebrisParticles(tm, c, d)
                   /\ kesslerOp' = Debris(c, d.done, p4)
                   /\ fragVisible' = f[1]
                   /\ fragLife' = f[2]
                   /\ fired' = d.fired
                   /\ runTriggers' = IF c = 4
                                     THEN (IF ch = 4 THEN runTriggers ELSE 0)
                                          + (IF d.fired THEN 1 ELSE 0)
                                     ELSE 0
                   /\ triggers' = IF d.fired THEN Min(triggers + 1, TrigCap)
                                  ELSE triggers
            /\ frames' = frames + 1
            /\ rafPending' = TRUE
            /\ rendered' = << rendererSize, cameraAspect, composerSize, lastResize >>
            /\ lateLoop' = (lateLoop \/ disposed)
            /\ LoopKeeps
       ELSE /\ rafPending' = FALSE
            /\ lateLoop' = TRUE
            /\ LoopKeeps
            /\ UNCHANGED << t, ch, satVis, collisionDone, collisionTime, collisionPt,
                            collisionR, dVisible, fragVisible, fragLife, debrisActive,
                            debrisP, kesslerOp, frames, fired, runTriggers, triggers,
                            rendered >>

\* What dispose, the resize observer and the load callbacks leave alone: the
\* fields the frames write, except dVisible.
SceneKeeps ==
    UNCHANGED << progress, t, ch, satVis, collisionDone, collisionTime, collisionPt,
                 collisionR, fragVisible, fragLife, debrisActive, debrisP, kesslerOp,
                 frames, fired, runTriggers, triggers, rendered, lateLoop >>

\* cancelAnimationFrame(this._raf): the pending callback is dropped, unless the
\* host is already delivering it (late).
CancelAnimationFrame(pending, late) == pending /\ late

\* dispose(): this.disposed = true; cancelAnimationFrame(this._raf);
\* renderer.dispose(); this._ro.disconnect().
Dispose(late) ==
    /\ ~disposed
    /\ disposed' = TRUE
    /\ rafPending' = CancelAnimationFrame(rafPending, late)
    /\ roConnected' = FALSE
    /\ roPending' = FALSE
    /\ SceneKeeps
    /\ UNCHANGED << dVisible, rendererSize, cameraAspect, composerSize, models, root, refs, winSize,
                    loads, lastResize >>

\* The user resizes the window (or rotates the device): document.body changes
\* size and a connected observer has a notification to deliver.
WindowResize(sz) ==
    /\ sz # winSize
    /\ winSize' = sz
    /\ roPending' = roConnected
    /\ SceneKeeps
    /\ UNCHANGED << dVisible, disposed, rendererSize, cameraAspect, composerSize, models, root, refs,
                    rafPending, roConnected, loads, lastResize >>

\* this.composer?.setSize(w, h), with the call left out.
ComposerSetSizeSkipped(old, sz) == old
ComposerSetSize(old, sz) == sz

\* The ResizeObserver callback of _initRenderer: w, h are read from the window;
\* r.setSize(w, h); camera.aspect = w / h; composer?.setSize(w, h).
ResizeNotify ==
    /\ roConnected
    /\ roPending
    /\ roPending' = FALSE
    /\ rendererSize' = winSize
    /\ cameraAspect' = Aspect(winSize)
    /\ composerSize' = ComposerSetSize(composerSize, winSize)
    /\ lastResize' = winSize
    /\ SceneKeeps
    /\ UNCHANGED << dVisible, disposed, models, root, refs, rafPending, roConnected, winSize, loads >>

\* The success callback of a load.  The earth model replaces the fallback
\* sphere; a satellite model replaces the fallback geometry if the file holds
\* a mesh (`if (g)`), and the new danger meshes are created invisible.
LoadSuccess(a, hasMesh) ==
    /\ loads[a] = "pending"
    /\ loads' = [loads EXCEPT ![a] = "loaded"]
    /\ models' = IF a = "earth" \/ hasMesh THEN [models EXCEPT ![a] = "gltf"] ELSE models
    /\ root' = IF a = "earth" \/ hasMesh THEN Replace(root, FieldsOf(a)) ELSE root
    /\ refs' = IF a = "earth" \/ hasMesh
               THEN [f \in Fields |-> IF f \in FieldsOf(a) THEN Obj(f, "gltf") ELSE refs[f]]
               ELSE refs
    /\ dVisible' = IF a = "dMesh" /\ hasMesh THEN FALSE ELSE dVisible
    /\ SceneKeeps
    /\ UNCHANGED << disposed, rendererSize, cameraAspect, composerSize, rafPending,
                    roConnected, roPending, winSize, lastResize >>

\* The error callback of a load, `() => {}`: what it does to the scene objects.
LoadErrorDropsFallback(m, a) == [m EXCEPT ![a] = "none"]
LoadErrorModels(m, a) == m

\* A load fails (file absent, network or parse error): the error callback runs.
LoadError(a) ==
    /\ loads[a] = "pending"
    /\ loads' = [loads EXCEPT ![a] = "failed"]
    /\ models' = LoadErrorModels(models, a)
    /\ UNCHANGED << root, refs >>
    /\ SceneKeeps
    /\ UNCHANGED << dVisible, disposed, rendererSize, cameraAspect, composerSize,
                    rafPending, roConnected, roPending, winSize, lastResize >>

-----------------------------------------------------------------------------
(* AstralScene: the collision lifecycle of the first engine *)

\* AstralScene._initDebris: this.debrisExploded = false; this.debrisExpTime = 0;
\* _prevChapter4 is not assigned before the first trigger (undefined, falsy).
SceneInit ==
    /\ debrisExploded = FALSE
    /\ debrisExpTime = 0
    /\ prevChapter4 = FALSE
    /\ sceneFired = FALSE

\* AstralScene._loop: const chapter = p < P1 ? 0 : p < P2 ? 1 : ... : 4
SceneChapter(p) ==
    IF p < P1 THEN 0 ELSE IF p < P2 THEN 1 ELSE IF p < P3 THEN 2
    ELSE IF p < P4 THEN 3 ELSE 4

\* _updateDebris: if (chapter === 4 && !this.debrisExploded)
SceneTrigger(c, exploded) == c = 4 /\ ~exploded

\* _updateDebris: if (chapter < 4 && this._prevChapter4)
SceneReset(c, prev) == c < 4 /\ prev

\* One frame of AstralScene._loop at this.progress = progress, dt ms after the
\* previous one: the flags _updateDebris leaves.
SceneLoop(dt) ==
    \E c \in {SceneChapter(progress)} :
    \E trig \in {SceneTrigger(c, debrisExploded)} :
    \E prev \in {prevChapter4 \/ trig} :
        /\ sceneFired' = trig
        /\ debrisExpTime' = IF trig THEN t + dt ELSE debrisExpTime
        /\ debrisExploded' = IF SceneReset(c, prev) THEN FALSE ELSE (debrisExploded \/ trig)
        /\ prevChapter4' = IF SceneReset(c, prev) THEN FALSE ELSE prev

-----------------------------------------------------------------------------
(* useLocoScroll *)

MaxScrolls == 2                \* scroll events per behaviour of SpecScroll
SettleFrames == 330            \* frames within which smooth reaches a constant raw
MaxNow == 1000                 \* wall-clock horizon of SpecIdle, ms

\* window.scrollY, documentElement.scrollHeight and window.innerHeight of a scroll
\* event, px.  scrollY leaves [0, max] on both sides (overscroll); the scrollable
\* height max = scrollHeight - innerHeight is negative, zero and positive.
ScrollYs == {-40, 500, 810, 1100}
ScrollHeights == {600, 800, 1800}
InnerHeights == {800}

\* Frames between two scroll events in SpecScroll: none, one, some, and settled.
ScrollGaps == {0, 1, 40, SettleFrames}

\* Wall-clock steps of SpecIdle, ms.
TimeSteps == {50, 150}

NoTimer == -1

\* onScroll: raw.current = max > 0 ? clamp(window.scrollY / max) : 0
ScrollRawUnclamped(scrollY, max) == IF max > 0 THEN (scrollY * PScale) \div max ELSE 0
ScrollRaw(scrollY, max) ==
    IF max > 0 THEN clamp((scrollY * PScale) \div max, 0, PScale) ELSE 0

\* clearTimeout(h) on the host's pending timeouts.
ClearTimeoutNoop(ts, h) == ts
ClearTimeout(ts, h) == ts \ {h}

\* delta * speed, speed in thousandths, rounded to the nearest progress unit.
Rate(delta, k) ==
    IF delta >= 0 THEN RDiv(delta * k, 1000) ELSE -RDiv((-delta) * k, 1000)

\* tick: const speed = Math.abs(delta) > 0.06 ? 0.055 : 0.028
Speed(delta) == IF Abs(delta) > 6 * (PScale \div 100) THEN 55 ELSE 28

\* tick: if (Math.abs(delta) < 0.00003) smooth.current = raw.current
SnapNever(delta) == FALSE
Snap(delta) == Abs(delta) < 3 * (PScale \div 100000)

\* tick: const p = smooth.current; setChapter(...p...)
PublishedChapterOfRaw(r, s) == TickChapter(r)
PublishedChapter(r, s) == TickChapter(s)

ScrollInit ==
    /\ raw = 0
    /\ smooth = 0
    /\ velocity = 0
    /\ scrolling = FALSE
    /\ idleTimer = NoTimer
    /\ chapter = 0
    /\ now = 0
    /\ timers = {}
    /\ lastScroll = -1
    /\ sinceScroll = 0
    /\ scrollsLeft = MaxScrolls

\* The scroll listener onScroll.
OnScroll(scrollY, scrollHeight, innerHeight) ==
    /\ raw' = ScrollRaw(scrollY, scrollHeight - innerHeight)
    /\ scrolling' = TRUE
    /\ timers' = ClearTimeout(timers, idleTimer) \cup {now + SCROLL_IDLE_MS}
    /\ idleTimer' = now + SCROLL_IDLE_MS
    /\ lastScroll' = now
    /\ sinceScroll' = 0
    /\ UNCHANGED << smooth, velocity, chapter, now >>

\* The callback of setTimeout(() => { scrolling.current = false; }, SCROLL_IDLE_MS).
IdleTimeout ==
    /\ \E due \in timers :
          /\ due <= now
          /\ timers' = timers \ {due}
    /\ scrolling' = FALSE
    /\ UNCHANGED << raw, smooth, velocity, idleTimer, chapter, now, lastScroll,
                    sinceScroll >>

\* Wall-clock time passes; a timeout runs when it is due, so time does not pass a
\* pending timeout.
Advance(step) ==
    /\ now + step <= MaxNow
    /\ \A due \in timers : now + step <= due
    /\ now' = now + step
    /\ UNCHANGED << raw, smooth, velocity, scrolling, idleTimer, chapter, timers,
                    lastScroll, sinceScroll >>

\* The animation-frame callback tick of useLocoScroll.
ScrollTick ==
    /\ \E delta \in {raw - smooth} :
       \E moved \in {smooth + Rate(delta, Speed(delta))} :
       \E s \in {IF Snap(delta) THEN raw ELSE moved} :
          /\ velocity' = moved - smooth
          /\ smooth' = s
          /\ chapter' = PublishedChapter(raw, s)
    /\ sinceScroll' = Min(sinceScroll + 1, SettleFrames)
    /\ UNCHANGED << raw, scrolling, idleTimer, now, timers, lastScroll >>

-----------------------------------------------------------------------------
(* Pure functions applied to enumerated arguments *)

\* Arguments: a grid over [0, 1] and the neighbours of every breakpoint.
PureInputs ==
    { k * (PScale \div 1000) : k \in 0..1000 }
    \cup { b + e : b \in {P1, P2, P3, P4}, e \in {-10, -1, 1, 10} }

PureInit ==
    /\ fnArg = 0
    /\ fnRet = << "none", 0 >>

CallGetChapter == fnRet' = << "getChapter", getChapter(fnArg) >> /\ UNCHANGED fnArg
CallLoopChapter == fnRet' = << "loopChapter", LoopChapter(fnArg) >> /\ UNCHANGED fnArg
CallTickChapter == fnRet' = << "tickChapter", TickChapter(fnArg) >> /\ UNCHANGED fnArg
CallSatsVis ==
    fnRet' = << "satsVis", SatsVis(LoopChapter(fnArg), fnArg) >> /\ UNCHANGED fnArg

\* PHASES and the end of the scroll: the bounds of phase k are PhaseBounds[k + 1]
\* and PhaseBounds[k + 2].
PhaseBounds == << P0, P1, P2, P3, P4, PScale >>

\* _loop: p0 .. p4 = smootherstep(remap(p, lower, upper)) for phase k
PhaseLocal(k, v) == smootherstep(remap(v, PhaseBounds[k + 1], PhaseBounds[k + 2]))

\* PhaseLocal applied to the argument, and to progress values up to a tenth
\* below 0 and above 1; fnRet = << name, result, phase, progress >>.
CallPhaseLocal ==
    /\ \E k \in 0..4, v \in {fnArg, -(fnArg \div 10), PScale + fnArg \div 10} :
          fnRet' = << "phaseLocal", PhaseLocal(k, v), k, v >>
    /\ UNCHANGED fnArg

-----------------------------------------------------------------------------
(* AstralEngine: the camera rig *)

CAM_DIST == 85 * (FP \div 10)

\* const FOV_MAP = [50, 62, 36, 30, 44]: degrees in 1/FP, entry ch + 1.
FOV_MAP == << 50 * FP, 62 * FP, 36 * FP, 30 * FP, 44 * FP >>

\* this.camLocked: the locked framing of chapter ch is entry ch + 1.
camLocked ==
    << [th |-> 0, ph |-> HalfPiFP - 8 * (FP \div 100), d |-> CAM_DIST],
       [th |-> 3 * (FP \div 10), ph |-> HalfPiFP, d |-> CAM_DIST + 15 * (FP \div 10)],
       [th |-> FP \div 10, ph |-> HalfPiFP - 12 * (FP \div 100),
        d |-> CAM_DIST - 15 * (FP \div 10)],
       [th |-> 0, ph |-> HalfPiFP + 8 * (FP \div 100), d |-> CAM_DIST - 3 * FP],
       [th |-> 0, ph |-> HalfPiFP, d |-> CAM_DIST + 5 * (FP \div 10)] >>

\* new THREE.Spherical(radius, phi, theta)
Spherical(radius, phi, theta) == [radius |-> radius, phi |-> phi, theta |-> theta]

RECURSIVE AcosSearch(_, _, _)
AcosSearch(c, lo, hi) ==
    IF lo >= hi THEN lo
    ELSE LET mid == (lo + hi + 1) \div 2
         IN  IF Cos(mid) >= c THEN AcosSearch(c, mid, hi)
                              ELSE AcosSearch(c, lo, mid - 1)

\* Math.acos(c), c in 1/FP: the largest angle of [0, pi] whose cosine is at
\* least c.
Acos(c) == AcosSearch(c, 0, PiFP)

\* Math.atan2(a, b): the angle of the direction whose sine is along a and whose
\* cosine is along b.
Atan2(a, b) ==
    IF a = 0 /\ b = 0 THEN 0
    ELSE LET ac == Acos(clamp(RDiv(b * FP, Sqrt(a * a + b * b)), -FP, FP))
         IN  IF a >= 0 THEN ac ELSE -ac

\* Spherical.setFromVector3(v): radius = |v|; theta = atan2(x, z);
\* phi = acos(clamp(y / radius, -1, 1)); both angles 0 at the origin.
SetFromVector3(v) ==
    LET r == Length(v)
    IN  IF r = 0 THEN Spherical(0, 0, 0)
        ELSE Spherical(r, Acos(clamp(RDiv(v.y * FP, r), -FP, FP)), Atan2(v.x, v.z))

\* Vector3.setFromSpherical(s): x = r sin(phi) sin(theta); y = r cos(phi);
\* z = r sin(phi) cos(theta).
SetFromSpherical(s) ==
    LET sinPhiRadius == Mul(Sin(s.phi), s.radius)
    IN  Vec(Mul(sinPhiRadius, Sin(s.theta)),
            Mul(Cos(s.phi), s.radius),
            Mul(sinPhiRadius, Cos(s.theta)))

\* lerp(a, b, t) = a + (b - a) * t on 1/FP numbers.
lerpFP(a, b, f) == a + Mul(b - a, f)

\* _cam: `this.camFree = !this.isScrolling`, with free-look never switched off.
CamFreeAlways(sc) == TRUE
CamFree(sc) == ~sc

\* _cam: radians of offset per pixel of drag (0.004), the auto-rotate step per
\* frame (0.003) and the limit of the polar offset (Math.PI * 0.38).
DragGain == 4 * (FP \div 1000)
AutoRotate == 3 * (FP \div 1000)
UserPhiMax == RDiv(PiFP * 38, 100)

\* _cam, `if (this.camFree) {...} else {...}` : camUserTheta and camUserPhi
\* after the block, from the inputs sc = isScrolling, dn = isDragging, dx, dy =
\* dragDX, dragDY and the offsets th, ph before it.
CamUser(sc, dn, dx, dy, th, ph) ==
    IF CamFree(sc)
    THEN IF dn
         THEN [theta |-> th + dx * DragGain,
               phi |-> clamp(ph - dy * DragGain, -UserPhiMax, UserPhiMax)]
         ELSE [theta |-> th + AutoRotate, phi |-> ph]
    ELSE [theta |-> RDiv(th * 93, 100), phi |-> RDiv(ph * 93, 100)]

\* _cam: this.camTarget, from the locked framing of the chapter, the lean toward
\* the midpoint of the danger pair in chapter 3, and the user offsets.
CamTarget(tm, c, p3, user) ==
    LET L == camLocked[c + 1]
    IN  IF c = 3
        THEN LET sp == SetFromVector3(DangerMid(tm))
             IN  Spherical(lerpFP(L.d, L.d - 18 * (FP \div 10), p3),
                           lerpFP(L.ph, sp.phi, Mul(p3, 4 * (FP \div 10))) + user.phi,
                           lerpFP(L.th, sp.theta, Mul(p3, 6 * (FP \div 10))) + user.theta)
        ELSE Spherical(L.d, L.ph + user.phi, L.th + user.theta)

\* _cam: `cur += (target - cur) * 0.035`
Follow(cur, target) == cur + RDiv((target - cur) * 35, 1000)

\* _cam: this.camSph after it followed the target; phi is clamped to
\* [0.15, pi - 0.15].
CamSphNext(sph, target) ==
    Spherical(Follow(sph.radius, target.radius),
              clamp(Follow(sph.phi, target.phi), 15 * (FP \div 100),
                    PiFP - 15 * (FP \div 100)),
              Follow(sph.theta, target.theta))

\* _cam, the scroll-velocity distortion, with the line left out.
VelSkewNone(v) == 0
\* _cam: `velSkew = this.scrollVelocity * 15; camera.position.y += velSkew * 0.3`;
\* v is in progress units (1/PScale), the result in world units (1/FP).
VelSkew(v) == RDiv(v * 45, 1000)

\* _cam: `if (el > 1.8) { this._shakeOn = false; }`, el in ms.
ShakeOver(el) == el > 1800

\* _cam: a = 0.22 * Math.exp(-el * 3.2), el in ms.
ShakeEnv(el) == RDiv(22 * ExpDecay(el * 32), 100)

\* _cam: the two sums of sines of the shake, tm in ms.
ShakeX(tm) == RDiv(Sin(tm * 930) * 5 + Sin(tm * 470) * 3 + Sin(tm * 2110) * 2, 10)
ShakeY(tm) == RDiv(Sin(tm * 780) * 45 + Sin(tm * 340) * 35 + Sin(tm * 1570) * 20, 100)

\* _cam: camera.position at the end of the call: the conversion of camSph, the
\* velocity skew on y and, while the shake runs, its displacement on x and y.
CamPosition(sph, v, shaking, tm, el) ==
    LET p == SetFromSpherical(sph)
    IN  IF shaking
        THEN Vec(p.x + Mul(ShakeEnv(el), ShakeX(tm)),
                 p.y + VelSkew(v) + Mul(ShakeEnv(el), ShakeY(tm)),
                 p.z)
        ELSE Vec(p.x, p.y + VelSkew(v), p.z)

\* The constructor (camera fields) and _initCamera.  _shakeOn and _shakeT are
\* not assigned before the first collision (undefined, falsy).
CamInit ==
    /\ isScrolling = TRUE
    /\ isDragging = FALSE
    /\ dragDX = 0
    /\ dragDY = 0
    /\ scrollVelocity = 0
    /\ currentFov = FOV_MAP[1]
    /\ camSph = Spherical(CAM_DIST, HalfPiFP - 8 * (FP \div 100), 0)
    /\ camUserTheta = 0
    /\ camUserPhi = 0
    /\ camFree = FALSE
    /\ camPos = SetFromSpherical(Spherical(CAM_DIST, HalfPiFP - 8 * (FP \div 100), 0))
    /\ shakeOn = FALSE
    /\ shakeT = 0
    /\ camShook = FALSE
    /\ dragApplied = 0
    /\ rafTurn = "loop"

\* setScrolling(v), setDragging(v), setDragDelta(dx, dy), setScrollVelocity(v).
\* (setMouse writes mx and my, which no method reads.)
SetCamInputs(sc, dn, dx, dy, v) ==
    /\ isScrolling' = sc
    /\ isDragging' = dn
    /\ dragDX' = dx
    /\ dragDY' = dy
    /\ scrollVelocity' = v
    /\ UNCHANGED camRigVars

\* What one frame of _loop does to the camera fields, dt ms after the previous
\* frame: the call this._cam(t, ch, p3), and then, if the COLLISION branch of
\* _danger runs in this frame, `this._shakeOn = true; this._shakeT = t`.
\* _cam reads and writes the camera fields only, and no other method of the
\* frame reads them: a frame is Loop(dt) /\ Cam(dt), and the specifications
\* that do not observe the camera take Loop(dt) with the camera fields fixed.
Cam(dt) ==
    /\ LoopRuns(disposed)
    /\ \E tm \in {t + dt}, c \in {LoopChapter(progress)} :
       \E p3 \in {smootherstep(remap(progress, P3, P4))} :
       \E user \in {CamUser(isScrolling, isDragging, dragDX, dragDY,
                            camUserTheta, camUserPhi)} :
       \E sph \in {CamSphNext(camSph, CamTarget(tm, c, p3, user))} :
       \E el \in {tm - shakeT} :
       \E shaking \in {shakeOn /\ ~ShakeOver(el)} :
          /\ currentFov' = currentFov + RDiv((FOV_MAP[c + 1] - currentFov) * 22, 1000)
          /\ camFree' = CamFree(isScrolling)
          /\ camUserTheta' = user.theta
          /\ camUserPhi' = user.phi
          /\ camSph' = sph
          /\ camPos' = CamPosition(sph, scrollVelocity, shaking, tm, el)
          /\ camShook' = shaking
          /\ shakeOn' = (fired' \/ shaking)
          /\ shakeT' = IF fired' THEN tm ELSE shakeT
          /\ dragApplied' = dragApplied
                            + (IF CamFree(isScrolling) /\ isDragging
                               THEN dragDX * DragGain ELSE 0)
    /\ UNCHANGED << camInputVars, mouseVars >>

-----------------------------------------------------------------------------
(* useMouseSystem and ThreeCanvas.tick: the drag pipeline *)

MaxPointerEvents == 4          \* pointer events per behaviour of SpecDrag

\* clientX and clientY of the pointer events, px.
PointerXs == {100, 110, 130}
PointerYs == {50}

MouseInit ==
    /\ down = FALSE
    /\ prevPointer = [x |-> 0, y |-> 0]
    /\ drag = [x |-> 0, y |-> 0]
    /\ moveTotal = 0
    /\ released = FALSE
    /\ pointerEvents = 0

\* mm: `drag.current.x = e.clientX - prev.current.x` (what drag.current held
\* is overwritten).
DragDelta(old, delta) == delta

\* md: down.current = true; prev.current = {x, y}; drag.current = {0, 0}.
MouseDown(x, y) ==
    /\ ~down
    /\ pointerEvents < MaxPointerEvents
    /\ down' = TRUE
    /\ prevPointer' = [x |-> x, y |-> y]
    /\ drag' = [x |-> 0, y |-> 0]
    /\ pointerEvents' = pointerEvents + 1
    /\ UNCHANGED << moveTotal, released >>

\* mm: while the pointer is down, drag.current is the displacement since the
\* previous pointer event and prev.current the new position.
MouseMove(x, y) ==
    /\ pointerEvents < MaxPointerEvents
    /\ pointerEvents' = pointerEvents + 1
    /\ IF down
       THEN /\ drag' = [x |-> DragDelta(drag.x, x - prevPointer.x),
                        y |-> DragDelta(drag.y, y - prevPointer.y)]
            /\ prevPointer' = [x |-> x, y |-> y]
            /\ moveTotal' = moveTotal + (x - prevPointer.x)
       ELSE UNCHANGED << drag, prevPointer, moveTotal >>
    /\ UNCHANGED << down, released >>

\* mu: down.current = false; drag.current = {0, 0}.
MouseUp ==
    /\ down
    /\ pointerEvents < MaxPointerEvents
    /\ down' = FALSE
    /\ drag' = [x |-> 0, y |-> 0]
    /\ released' = TRUE
    /\ pointerEvents' = pointerEvents + 1
    /\ UNCHANGED << prevPointer, moveTotal >>

\* ThreeCanvas.tick: the setters are called with the current values of the
\* refs (p, sc and v are progressRef, scrollingRef and velocityRef), then
\* dragRef.current.x and .y are set to 0.
CanvasTick(p, sc, v) ==
    /\ SetProgress(p)
    /\ SetCamInputs(sc, down, drag.x, drag.y, v)
    /\ drag' = [x |-> 0, y |-> 0]
    /\ UNCHANGED << down, prevPointer, moveTotal, released, pointerEvents >>

-----------------------------------------------------------------------------
(* useLocoScroll and useMouseSystem: mounting and unmounting *)

MaxMounts == 3                 \* mounts per behaviour of SpecMount

\* The event types the two hooks listen to on window.
EventTypes == {"scroll", "mousemove", "mousedown", "mouseup",
               "touchstart", "touchmove", "touchend"}

\* The listeners the effects of mount number gen attach: one function per type,
\* made by that run of the effects.
Attached(gen) == {[type |-> ty, gen |-> gen] : ty \in EventTypes}

\* The types of the removeEventListener calls of the two cleanups.
RemovedTypes == {"scroll", "mousemove", "mousedown", "mouseup"}

\* The first mount: the effects of both hooks have run once.
DomInit ==
    /\ mounted = TRUE
    /\ mounts = 1
    /\ listeners = Attached(1)

\* The effects run (again): every addEventListener call of both hooks.
Mount ==
    /\ ~mounted
    /\ mounts < MaxMounts
    /\ mounted' = TRUE
    /\ mounts' = mounts + 1
    /\ listeners' = listeners \cup Attached(mounts + 1)
    /\ UNCHANGED scrollVars

\* The cleanups of the effects: removeEventListener for the functions this
\* mount attached under a name, and clearTimeout(idleTimer.current).
Unmount ==
    /\ mounted
    /\ mounted' = FALSE
    /\ listeners' = listeners \ {[type |-> ty, gen |-> mounts] : ty \in RemovedTypes}
    /\ timers' = ClearTimeout(timers, idleTimer)
    /\ UNCHANGED << mounts, raw, smooth, velocity, scrolling, idleTimer, chapter, now,
                    lastScroll, sinceScroll, scrollsLeft >>

\* A scroll event reaches onScroll while a scroll listener is attached.
ScrollAttached == \E l \in listeners : l.type = "scroll"

-----------------------------------------------------------------------------
(* Specifications *)

MaxDraws == 10000              \* values drawn from each generator
MaxLead == 2                   \* how far one generator runs ahead of the other

\* Seeds the code passes to prng: the default and those of _initDebris and of
\* the debris spread.
PrngSeeds == {42, 55, 1234}

Gens == {"a", "b"}
OtherGen(g) == IF g = "a" THEN "b" ELSE "a"

\* const a = prng(seed), b = prng(seed): every call has its own `let s = seed`.
PrngInit(seed) ==
    /\ genS = [g \in Gens |-> PrngSeed(seed)]
    /\ genN = [g \in Gens |-> 0]
    /\ lead = << >>
    /\ mismatch = FALSE

\* What a call of one generator leaves in the closure variable of the other:
\* with one variable shared by all generators, the value just written.
SharedAcrossGenerators(own, written) == written
ClosureOfOther(own, written) == own

\* One call g() of generator g: s is advanced and returned as
\* (s >>> 0) / 0xffffffff; the value is kept as its numerator s.
Draw(g) ==
    /\ genN[g] < MaxDraws
    /\ genN[g] - genN[OtherGen(g)] < MaxLead
    /\ \E s2 \in {prngStep(genS[g])} :
          /\ genS' = [h \in Gens |-> IF h = g THEN s2 ELSE ClosureOfOther(genS[h], s2)]
          /\ IF genN[g] < genN[OtherGen(g)]
             THEN /\ mismatch' = (mismatch \/ s2 # Head(lead))
                  /\ lead' = Tail(lead)
             ELSE /\ lead' = Append(lead, s2)
                  /\ UNCHANGED mismatch
    /\ genN' = [genN EXCEPT ![g] = @ + 1]

InitPrng ==
    /\ ScrollInit /\ EngineInit /\ PureInit /\ SceneInit
    /\ CamInit /\ MouseInit /\ DomInit
    /\ \E seed \in PrngSeeds : PrngInit(seed)

NextPrng ==
    \/ Draw("a") /\ UNCHANGED << scrollVars, camVars, domVars, engineVars, sceneVars, fnArg, fnRet >>
    \/ Draw("b") /\ UNCHANGED << scrollVars, camVars, domVars, engineVars, sceneVars, fnArg, fnRet >>

\* Two generators of one seed, called in any order.
SpecPrng == InitPrng /\ [][NextPrng]_vars

Init ==
    /\ ScrollInit /\ EngineInit /\ PureInit /\ SceneInit /\ PrngInit(42)
    /\ CamInit /\ MouseInit /\ DomInit

Next ==
    \/ \E p \in EngineProgress : SetProgress(p) /\ UNCHANGED << scrollVars, camVars, domVars, pureVars, sceneVars >>
    \/ \E dt \in FrameSteps : Loop(dt) /\ UNCHANGED << scrollVars, camVars, domVars, pureVars, sceneVars >>

\* The engine driven by arbitrary progress values.
Spec == Init /\ [][Next]_vars

InitPure ==
    /\ ScrollInit /\ EngineInit /\ SceneInit /\ PrngInit(42)
    /\ CamInit /\ MouseInit /\ DomInit
    /\ fnArg \in PureInputs /\ fnRet = << "none", 0 >>

NextPure ==
    \/ CallGetChapter /\ UNCHANGED << scrollVars, camVars, domVars, engineVars, sceneVars, prngVars >>
    \/ CallLoopChapter /\ UNCHANGED << scrollVars, camVars, domVars, engineVars, sceneVars, prngVars >>
    \/ CallTickChapter /\ UNCHANGED << scrollVars, camVars, domVars, engineVars, sceneVars, prngVars >>
    \/ CallSatsVis /\ UNCHANGED << scrollVars, camVars, domVars, engineVars, sceneVars, prngVars >>
    \/ CallPhaseLocal /\ UNCHANGED << scrollVars, camVars, domVars, engineVars, sceneVars, prngVars >>

\* The pure functions applied to every argument of PureInputs.
SpecPure == InitPure /\ [][NextPure]_vars

\* Frame interval and progress of SpecHost.
HostFrameSteps == {16}
HostProgress == { 81 * (PScale \div 100) }

NextHost ==
    \/ \E p \in HostProgress : SetProgress(p) /\ UNCHANGED << scrollVars, camVars, domVars, pureVars, sceneVars >>
    \/ \E dt \in HostFrameSteps : Loop(dt) /\ UNCHANGED << scrollVars, camVars, domVars, pureVars, sceneVars >>
    \/ \E late \in BOOLEAN : Dispose(late) /\ UNCHANGED << scrollVars, camVars, domVars, pureVars, sceneVars >>
    \/ \E sz \in WindowSizes : WindowResize(sz) /\ UNCHANGED << scrollVars, camVars, domVars, pureVars, sceneVars >>
    \/ ResizeNotify /\ UNCHANGED << scrollVars, camVars, domVars, pureVars, sceneVars >>
    \/ \E a \in Assets, hasMesh \in BOOLEAN :
          LoadSuccess(a, hasMesh) /\ UNCHANGED << scrollVars, camVars, domVars, pureVars, sceneVars >>
    \/ \E a \in Assets : LoadError(a) /\ UNCHANGED << scrollVars, camVars, domVars, pureVars, sceneVars >>

\* The engine among its host's events: frames, teardown, window resizes and
\* the outcomes of the asset loads.
SpecHost == Init /\ [][NextHost]_vars

NextPair ==
    \/ \E p \in EngineProgress : SetProgress(p) /\ UNCHANGED << scrollVars, camVars, domVars, pureVars, sceneVars >>
    \/ \E dt \in FrameSteps : Loop(dt) /\ SceneLoop(dt) /\ UNCHANGED << scrollVars, camVars, domVars, pureVars >>

\* AstralEngine and AstralScene side by side: every progress value is given to
\* both, and every frame is a frame of both on the same clock.
SpecPair == Init /\ [][NextPair]_vars

NextScroll ==
    \/ /\ scrollsLeft > 0
       /\ sinceScroll \in ScrollGaps
       /\ \E y \in ScrollYs, sh \in ScrollHeights, ih \in InnerHeights : OnScroll(y, sh, ih)
       /\ scrollsLeft' = scrollsLeft - 1
       /\ UNCHANGED << engineVars, camVars, domVars, pureVars, sceneVars >>
    \/ ScrollTick /\ UNCHANGED << scrollsLeft, engineVars, camVars, domVars, pureVars, sceneVars >>

\* The scroll tracker: scroll events interleaved with smoothing frames.
SpecScroll == Init /\ [][NextScroll]_vars

NextIdle ==
    \/ /\ \E y \in ScrollYs, sh \in ScrollHeights, ih \in InnerHeights : OnScroll(y, sh, ih)
       /\ UNCHANGED << scrollsLeft, engineVars, camVars, domVars, pureVars, sceneVars >>
    \/ IdleTimeout /\ UNCHANGED << scrollsLeft, engineVars, camVars, domVars, pureVars, sceneVars >>
    \/ \E step \in TimeSteps : Advance(step) /\ UNCHANGED << scrollsLeft, engineVars, camVars, domVars, pureVars, sceneVars >>

\* The scrolling flag: scroll events, the idle timeout and the wall clock.
SpecIdle == Init /\ [][NextIdle]_vars

\* Frame interval of SpecCam and its cap on frames: a trigger, a frame inside
\* the 1.8 s of the shake and frames after it.
CamFrameSteps == {1000}
MaxCamFrames == 4

\* Values ThreeCanvas.tick hands to the setters in SpecCam: scrolling forward
\* into chapter 4; idle; idle and dragging; scrolling back through chapter 3
\* with the pointer down; dragging while the smoothed progress still glides.
CamInputs ==
    { [p |-> 81 * (PScale \div 100), sc |-> TRUE, dn |-> FALSE, dx |-> 0, dy |-> 0,
       v |-> 4000],
      [p |-> 81 * (PScale \div 100), sc |-> FALSE, dn |-> FALSE, dx |-> 0, dy |-> 0,
       v |-> 0],
      [p |-> 81 * (PScale \div 100), sc |-> FALSE, dn |-> TRUE, dx |-> 25, dy |-> -400,
       v |-> 0],
      [p |-> 70 * (PScale \div 100), sc |-> TRUE, dn |-> TRUE, dx |-> 25, dy |-> -400,
       v |-> -2000],
      [p |-> 70 * (PScale \div 100), sc |-> FALSE, dn |-> TRUE, dx |-> -10, dy |-> 400,
       v |-> 4000] }

NextCam ==
    \/ \E in \in CamInputs :
          /\ SetProgress(in.p)
          /\ SetCamInputs(in.sc, in.dn, in.dx, in.dy, in.v)
          /\ UNCHANGED << mouseVars, rafTurn, scrollVars, domVars, pureVars, sceneVars >>
    \/ \E dt \in CamFrameSteps :
          /\ frames < MaxCamFrames
          /\ Loop(dt)
          /\ Cam(dt)
          /\ UNCHANGED << rafTurn, scrollVars, domVars, pureVars, sceneVars >>

\* The engine with its camera: the setters called with the values of
\* CamInputs, and frames.
SpecCam == Init /\ [][NextCam]_vars

\* Values of progressRef, scrollingRef and velocityRef in SpecDrag: the page
\* rests at the top and is not being scrolled.
DragProgress == {0}
DragScrolling == {FALSE}
DragVelocity == {0}

NextDrag ==
    \/ \E x \in PointerXs, y \in PointerYs :
          /\ rafTurn = "loop"
          /\ MouseDown(x, y)
          /\ UNCHANGED << camInputVars, camRigVars, rafTurn, engineVars, scrollVars,
                          domVars, pureVars, sceneVars >>
    \/ \E x \in PointerXs, y \in PointerYs :
          /\ rafTurn = "loop"
          /\ MouseMove(x, y)
          /\ UNCHANGED << camInputVars, camRigVars, rafTurn, engineVars, scrollVars,
                          domVars, pureVars, sceneVars >>
    \/ /\ rafTurn = "loop"
       /\ MouseUp
       /\ UNCHANGED << camInputVars, camRigVars, rafTurn, engineVars, scrollVars,
                       domVars, pureVars, sceneVars >>
    \/ \E p \in DragProgress, sc \in DragScrolling, v \in DragVelocity :
          /\ rafTurn = "tick"
          /\ CanvasTick(p, sc, v)
          /\ rafTurn' = "loop"
          /\ UNCHANGED << scrollVars, domVars, pureVars, sceneVars >>
    \/ \E dt \in HostFrameSteps :
          /\ rafTurn = "loop"
          /\ Loop(dt)
          /\ Cam(dt)
          /\ rafTurn' = "tick"
          /\ UNCHANGED << scrollVars, domVars, pureVars, sceneVars >>

\* The drag pipeline: pointer events between animation frames; every animation
\* frame runs AstralEngine._loop and then ThreeCanvas.tick (the order in which
\* the two callbacks were first requested).
SpecDrag == Init /\ [][NextDrag]_vars

NextMount ==
    \/ Mount /\ UNCHANGED << engineVars, camVars, pureVars, sceneVars >>
    \/ Unmount /\ UNCHANGED << engineVars, camVars, pureVars, sceneVars >>
    \/ /\ ScrollAttached
       /\ \E y \in ScrollYs, sh \in ScrollHeights, ih \in InnerHeights : OnScroll(y, sh, ih)
       /\ UNCHANGED << scrollsLeft, domVars, engineVars, camVars, pureVars, sceneVars >>
    \/ IdleTimeout /\ UNCHANGED << scrollsLeft, domVars, engineVars, camVars, pureVars, sceneVars >>
    \/ \E step \in TimeSteps :
          Advance(step) /\ UNCHANGED << scrollsLeft, domVars, engineVars, camVars, pureVars, sceneVars >>

\* The two hooks mounted, unmounted and mounted again, among scroll events and
\* the idle timeout.
SpecMount == Init /\ [][NextMount]_vars

-----------------------------------------------------------------------------
(* Claims *)

\* A step of Spec that is one frame of _loop.
FrameStep == frames' = frames + 1

\* C1: over a run of consecutive chapter-4 frames the collision fires on at most
\* one frame, and on every later frame of the run (whatever progress in [0.8, 1]
\* is supplied) nothing fires and collisionTime, collisionPt and collisionR are
\* left unchanged.
C1_TriggerOncePerRun ==
    [][ (FrameStep /\ ch' = 4) =>
          /\ runTriggers' <= 1
          /\ (ch = 4 /\ runTriggers = 1 =>
                /\ ~fired'
                /\ collisionDone'
                /\ UNCHANGED << collisionTime, collisionPt, collisionR >>) ]_vars

\* C1 witness: a later frame of a chapter-4 run, after the frame that fired, with
\* time passed since the collision.
C1_Witness ==
    /\ ch = 4
    /\ runTriggers = 1
    /\ ~fired
    /\ collisionDone
    /\ collisionTime < t
    /\ collisionPt = DangerMid(collisionTime)

\* C2 (as claimed): a frame whose chapter is below 4 and that starts with
\* collisionDone true ends with collisionDone false.
C2_ResetBelowFour ==
    [][ (FrameStep /\ collisionDone /\ ch' < 4) => ~collisionDone' ]_vars

\* C3 (as claimed): at the end of every frame collisionDone is true exactly when
\* the chapter is 4 and the collision fired during the current stay in chapter 4.
C3_DoneIffChapterFour ==
    frames > 0 => (collisionDone <=> (ch = 4 /\ runTriggers >= 1))

\* C4: after a trigger, a frame at a chapter-2 (or lower) progress clears the
\* flag, and the first chapter-4 frame that starts with the flag clear fires
\* again, recording that frame's time and the midpoint of the danger satellites'
\* orbital positions at that time.
C4_RetriggerAfterRegress ==
    [][ (FrameStep /\ triggers >= 1) =>
          /\ (ch' <= 2 => ~collisionDone')
          /\ (~collisionDone /\ ch' = 4 =>
                /\ fired'
                /\ collisionDone'
                /\ collisionTime' = t'
                /\ collisionTime' > collisionTime
                /\ collisionPt' = Midpoint(satPos(dA, t'), satPos(dB, t'))
                /\ collisionR' = Length(collisionPt')) ]_vars

\* C4 witness: the second trigger has just fired, at a later time and at another
\* point than the collision point at time 0 of the clock.
C4_Witness ==
    /\ triggers = 2
    /\ fired
    /\ collisionDone
    /\ collisionTime = t
    /\ progress = 81 * (PScale \div 100)
    /\ collisionPt = DangerMid(t)
    /\ collisionPt # DangerMid(0)

\* The half-open interval [lo, hi) of progress values, in tenths.
InTenths(p, lo, hi) == lo * (PScale \div 10) <= p /\ p < hi * (PScale \div 10)

\* The chapter function whose result fnRet holds, applied to q.
AppliedChapter(q) ==
    IF fnRet[1] = "getChapter" THEN getChapter(q)
    ELSE IF fnRet[1] = "loopChapter" THEN LoopChapter(q)
    ELSE TickChapter(q)

\* C5: for p in [0, 1] each chapter mapping returns a value in 0..4, is
\* non-decreasing in p, maps [0,0.2), [0.2,0.4), [0.4,0.6), [0.6,0.8) and [0.8,1]
\* to 0, 1, 2, 3 and 4, and gives 1 at 0.2, 0 at 0.19999 and 4 at 1.0.
C5_ChapterMapping ==
    fnRet[1] \in {"getChapter", "loopChapter", "tickChapter"} =>
        /\ fnRet[2] \in 0..4
        /\ (fnRet[2] = 0) = InTenths(fnArg, 0, 2)
        /\ (fnRet[2] = 1) = InTenths(fnArg, 2, 4)
        /\ (fnRet[2] = 2) = InTenths(fnArg, 4, 6)
        /\ (fnRet[2] = 3) = InTenths(fnArg, 6, 8)
        /\ (fnRet[2] = 4) = (8 * (PScale \div 10) <= fnArg /\ fnArg <= PScale)
        /\ \A q \in PureInputs : q <= fnArg => AppliedChapter(q) <= fnRet[2]
        /\ (fnArg = 20000 * (PScale \div 100000) => fnRet[2] = 1)
        /\ (fnArg = 19999 * (PScale \div 100000) => fnRet[2] = 0)
        /\ (fnArg = PScale => fnRet[2] = 4)

\* C5 witness: the mapping applied just below the first breakpoint.
C5_Witness ==
    /\ fnRet = << "loopChapter", 0 >>
    /\ fnArg = 19999 * (PScale \div 100000)

\* C6 (as claimed): after a smoothing frame the published chapter is the chapter
\* of raw.
C6_ChapterOfRaw == sinceScroll > 0 => chapter = getChapter(raw)

\* C6 (amended): the published chapter is the chapter of the smoothed progress.
C6_ChapterOfSmooth == chapter = getChapter(smooth)

\* C6 witness: a frame has run since the last scroll event and the published
\* chapter is not the chapter of raw.
C6_Witness ==
    /\ sinceScroll > 0
    /\ raw = 81 * (PScale \div 100)
    /\ chapter = 2
    /\ chapter = getChapter(smooth)

\* C7: raw and smooth stay within [0, 1].
C7_ProgressInUnitInterval ==
    /\ 0 <= raw /\ raw <= PScale
    /\ 0 <= smooth /\ smooth <= PScale

\* C7 witness: raw = 1 comes only from a scrollY beyond the scrollable height
\* (clamped), and raw = 0 after it from a negative scrollY or a non-positive
\* height; smooth is on its way down from a value it reached following raw = 1.
C7_Witness ==
    /\ scrollsLeft = 0
    /\ raw = 0
    /\ smooth > PScale \div 2
    /\ sinceScroll > 0

\* C8: SettleFrames frames after the last change of raw, smooth equals raw, and
\* it stays there on every later frame.
C8_SmoothConverges == sinceScroll >= SettleFrames => (smooth = raw /\ velocity = 0)

\* C8 witness: smooth has settled on a raw it had to travel to.
C8_Witness ==
    /\ sinceScroll = SettleFrames
    /\ scrollsLeft < MaxScrolls
    /\ raw = PScale
    /\ smooth = raw

\* C9: the scrolling flag is true from a scroll event until SCROLL_IDLE_MS have
\* passed without another one, and false from then on.
C9_ScrollingWindow ==
    /\ (lastScroll >= 0 /\ now < lastScroll + SCROLL_IDLE_MS => scrolling)
    /\ (now > lastScroll + SCROLL_IDLE_MS => ~scrolling)
    /\ (lastScroll < 0 => ~scrolling)
    /\ (scrolling => timers = {lastScroll + SCROLL_IDLE_MS})

\* C9 witness: a scroll event restarted a running window, and the flag is still
\* true after the first window's end.
C9_Witness ==
    /\ scrolling
    /\ lastScroll > 0
    /\ lastScroll < SCROLL_IDLE_MS
    /\ now > SCROLL_IDLE_MS

\* C10: the visible count is 4 in chapter 0, non-decreasing over [0.2, 0.4),
\* the pool size from 0.4 on, and always within [4, SAT_POOL].
C10_VisibleCount ==
    fnRet[1] = "satsVis" =>
        /\ (fnArg < 2 * (PScale \div 10) => fnRet[2] = 4)
        /\ (fnArg >= 4 * (PScale \div 10) => fnRet[2] = 200)
        /\ 4 <= fnRet[2] /\ fnRet[2] <= 200
        /\ \A q \in PureInputs :
              (2 * (PScale \div 10) <= q /\ q <= fnArg /\ fnArg < 4 * (PScale \div 10))
                  => SatsVis(LoopChapter(q), q) <= fnRet[2]

\* C10 witness: a count strictly inside the ramp.
C10_Witness ==
    /\ fnRet[1] = "satsVis"
    /\ fnArg = 3 * (PScale \div 10)
    /\ fnRet[2] > 4
    /\ fnRet[2] < 200

\* The frame that just ended ran the debris integration of _debris.
DebrisShown == frames > 0 /\ ch = 4 /\ collisionDone /\ debrisActive

\* C11 (as claimed): at the end of every frame after a trigger, the distance of
\* every active debris particle from the collision point is within
\* [0.85 * collisionR, 1.18 * collisionR], drift included.
C11_DebrisBandAroundCollisionPt ==
    DebrisShown =>
        \A i \in DebrisIdx :
            /\ RDiv(collisionR * 85, 100) <= Length(VSub(debrisP[i].pos, collisionPt))
            /\ Length(VSub(debrisP[i].pos, collisionPt)) <= RDiv(collisionR * 118, 100)

\* C12 (as claimed): at the end of every frame after a trigger, every active
\* debris particle is at least EARTH_RADIUS away from the world origin.
C12_DebrisOutsidePlanet ==
    DebrisShown => \A i \in DebrisIdx : Length(debrisP[i].pos) >= EARTH_RADIUS

\* C13: the life of every debris particle and of the fragments is within [0, 1],
\* and from a trigger to the next reset of collisionDone no frame increases it.
C13_LifeNonIncreasing ==
    /\ [](/\ 0 <= fragLife /\ fragLife <= FP
          /\ \A i \in DebrisIdx : 0 <= debrisP[i].life /\ debrisP[i].life <= FP)
    /\ [][ (FrameStep /\ collisionDone /\ collisionDone') =>
              /\ fragLife' <= fragLife
              /\ \A i \in DebrisIdx : debrisP'[i].life <= debrisP[i].life ]_vars

\* C13 witness: frames have run since the trigger, the fragments have lost part
\* of their life and the debris particles are active.
C13_Witness ==
    /\ collisionDone
    /\ debrisActive
    /\ collisionTime < t
    /\ fragVisible
    /\ 0 < fragLife /\ fragLife < FP \div 2
    /\ \E i \in DebrisIdx : 0 < debrisP[i].life /\ debrisP[i].life < FP

\* C14 (as claimed): kesslerMat.uOp is at most 0.8, and from one frame with
\* chapter 4 and collisionDone to the next such frame it does not decrease.
C14_KesslerOpacityMonotone ==
    /\ [](kesslerOp <= 8 * (FP \div 10))
    /\ [][ (FrameStep /\ ch = 4 /\ collisionDone /\ ch' = 4 /\ collisionDone') =>
              kesslerOp' >= kesslerOp ]_vars

\* C15: once dispose() has run the resize observer is disconnected, and no step
\* other than a load callback (an invocation of _loop in particular, also of a
\* frame callback that was pending when dispose ran) changes a field the frames
\* write, renders, or requests another frame.
C15_DisposedLoopStopped ==
    /\ [](disposed => (~roConnected /\ ~roPending))
    /\ [][ (disposed /\ loads' = loads) =>
              /\ UNCHANGED << t, ch, satVis, collisionDone, collisionTime, collisionPt,
                              collisionR, dVisible, fragVisible, fragLife,
                              debrisActive, debrisP, kesslerOp, frames, fired,
                              runTriggers, triggers, rendered >>
              /\ UNCHANGED << rendererSize, cameraAspect, composerSize, lastResize >>
              /\ (rafPending' => rafPending)
              /\ disposed' ]_vars

\* C15 witness: frames ran, dispose ran while a frame callback was pending, and
\* the callback has been invoked since: nothing is pending any more.
C15_Witness ==
    /\ disposed
    /\ lateLoop
    /\ ~rafPending
    /\ frames > 0
    /\ frames < MaxFrames
    /\ winSize # lastResize

\* C16: at every composer.render() (and in between) the renderer size, the
\* camera aspect and the composer size are those of one viewport size, the one
\* the most recent resize notification read.
C16_ResizeAtomic ==
    /\ rendererSize = lastResize
    /\ composerSize = lastResize
    /\ cameraAspect = Aspect(lastResize)
    /\ (rendered # << >> =>
          /\ rendered[1] = rendered[4]
          /\ rendered[3] = rendered[4]
          /\ rendered[2] = Aspect(rendered[4]))

\* C16 witness: a frame was rendered at the portrait size a notification
\* delivered, and the window has since gone back to the initial size without
\* the notification for it having been delivered yet.
C16_Witness ==
    /\ rendered # << >>
    /\ rendered[4] = << 390, 844 >>
    /\ rendererSize = << 390, 844 >>
    /\ cameraAspect < FP
    /\ winSize = InitWindow
    /\ roPending

\* C17: a failed load leaves the fallback object of its asset in the scene, is
\* never started again, and its error callback changes nothing else: not the
\* scene, not the other assets' objects, not the pending frame.
C17_LoadFailureNonFatal ==
    /\ [](\A a \in Assets : loads[a] = "failed" => models[a] = "fallback")
    /\ [][ \A a \in Assets : loads[a] = "failed" => loads'[a] = "failed" ]_vars
    /\ [][ (\E a \in Assets : loads[a] = "pending" /\ loads'[a] = "failed") =>
              /\ UNCHANGED << progress, t, ch, satVis, collisionDone, collisionTime,
                              collisionPt, collisionR, dVisible, fragVisible, fragLife,
                              debrisActive, debrisP, kesslerOp, frames, rendered >>
              /\ UNCHANGED << models, root, refs, disposed, rafPending, roConnected, rendererSize,
                              cameraAspect, composerSize >> ]_vars

\* C17 witness: all three loads have failed, the collision sequence has run on
\* the fallback objects and the next frame is requested.
C17_Witness ==
    /\ \A a \in Assets : loads[a] = "failed" /\ models[a] = "fallback"
    /\ collisionDone
    /\ frames > 1
    /\ rafPending
    /\ ~disposed

\* C18: for each pair of adjacent breakpoints, the eased phase-local progress is
\* exactly 0 at the lower bound and for every input below it, and exactly 1 at
\* the upper bound and for every input above it.
C18_PhaseLocalBoundaries ==
    fnRet[1] = "phaseLocal" =>
        /\ (fnRet[4] <= PhaseBounds[fnRet[3] + 1] => fnRet[2] = 0)
        /\ (fnRet[4] >= PhaseBounds[fnRet[3] + 2] => fnRet[2] = FP)

\* C18 witness: the third phase evaluated below its lower bound P2 (at a
\* negative progress).
C18_Witness ==
    /\ fnRet[1] = "phaseLocal"
    /\ fnRet[3] = 2
    /\ fnRet[4] < 0
    /\ fnRet[2] = 0

\* C19: two generators made with the same seed return the same value at every
\* rank up to MaxDraws, hold the same state whenever they have been called
\* equally often, and a call of one leaves the state of the other unchanged.
C19_PrngDeterministic ==
    /\ [](~mismatch)
    /\ [](genN["a"] = genN["b"] => genS["a"] = genS["b"])
    /\ [][ \A g \in Gens : genN'[g] = genN[g] => genS'[g] = genS[g] ]_vars

\* C19 witness: both generators have returned MaxDraws values, and the state
\* is neither the seed nor the state after one call.
C19_Witness ==
    /\ genN["a"] = MaxDraws
    /\ genN["b"] = MaxDraws
    /\ ~mismatch
    /\ \A seed \in PrngSeeds :
          genS["a"] \notin {PrngSeed(seed), prngStep(PrngSeed(seed))}

\* C20 (as claimed): given the same progress on every frame, after every frame
\* AstralScene.debrisExploded equals AstralEngine.collisionDone, and the two
\* triggers fire on the same frames.
C20_EnginesAgree ==
    frames > 0 => (debrisExploded = collisionDone /\ sceneFired = fired)

\* C21 (as claimed): at the render of every frame the danger meshes and glow
\* sprites are hidden when the chapter is below 3 and visible when the chapter
\* is 3, whatever the scroll history.
C21_DangerVisibleInChapterThree ==
    [][ FrameStep => /\ (ch' < 3 => ~dVisible')
                     /\ (ch' = 3 => dVisible') ]_vars

\* _debris: the value written to the entries of the position buffer of a
\* particle that is not drawn.
Parked == Vec(9999 * FP, 9999 * FP, 9999 * FP)

\* _debris(t, ch, p3, p4): the entries pb[3i .. 3i+2] of the position buffer the
\* last frame left: the particle's position when the chapter is 4 or more, the
\* collision is done and the particle is active, else the parking position.
DebrisBuffer ==
    [i \in DebrisIdx |->
        IF ch >= 4 /\ collisionDone /\ debrisActive THEN debrisP[i].pos ELSE Parked]

\* C22 (as claimed): a frame whose chapter is below 4 changes no debris
\* position and no fragment life, and leaves every debris entry of the render
\* position buffer parked at (9999, 9999, 9999).
C22_NoIntegrationBelowFour ==
    [][ (FrameStep /\ ch' < 4) =>
          /\ \A i \in DebrisIdx : debrisP'[i].pos = debrisP[i].pos
          /\ (fragVisible => fragLife' = fragLife)
          /\ \A i \in DebrisIdx : DebrisBuffer'[i] = Parked ]_vars

TickStep == scrollsLeft' = scrollsLeft

\* C25 (as claimed): every smoothing frame moves smooth toward raw by the
\* fraction k of the gap (0.055 when the gap exceeds 0.06, else 0.028), the sign
\* of raw - smooth does not flip, the gap does not grow, and the published
\* velocity is the change of smooth made by that frame.
C25_SmoothingStep ==
    [][ TickStep =>
          LET delta == raw - smooth
          IN  /\ smooth' = smooth + Rate(delta, Speed(delta))
              /\ (delta >= 0 => raw - smooth' >= 0)
              /\ (delta <= 0 => raw - smooth' <= 0)
              /\ Abs(raw - smooth') <= Abs(delta)
              /\ velocity' = smooth' - smooth ]_vars

\* The objects of the root made for field f.
RootObjects(f) == {o \in root : o.of = f}

\* C28: whatever the order of the load completions among the frames, the root
\* holds exactly one earth object, exactly one satellite pool, of SAT_POOL
\* instances, and exactly one mesh for each danger satellite, and the fields
\* earth, satInst, dMeshA and dMeshB hold objects that are in the root.
C28_OneObjectPerField ==
    /\ \A f \in Fields : Cardinality(RootObjects(f)) = 1
    /\ \A o \in RootObjects("satInst") : o.count = SAT_POOL
    /\ \A f \in Fields : refs[f] \in root /\ refs[f].of = f

\* C28 witness: the three loads completed with a mesh, at different points of
\* the frame loop, and every field holds the loaded object.
C28_Witness ==
    /\ \A a \in Assets : loads[a] = "loaded"
    /\ \A f \in Fields : refs[f] = Obj(f, "gltf")
    /\ frames >= 2
    /\ ~disposed

\* C30 (as claimed): once dispose() has run, no load callback adds an object to
\* the root, removes one from it, or replaces earth, satInst, dMeshA or dMeshB.
C30_NoLoadEffectAfterDispose ==
    [][ disposed => UNCHANGED << root, refs >> ]_vars

C24_FreeLookGate ==
    [][ FrameStep =>
          /\ camFree' = ~isScrolling
          /\ (isScrolling =>
                /\ camUserTheta' = RDiv(camUserTheta * 93, 100)
                /\ camUserPhi' = RDiv(camUserPhi * 93, 100)
                /\ Abs(camUserTheta') <= Abs(camUserTheta)
                /\ Abs(camUserPhi') <= Abs(camUserPhi))
          /\ (~isScrolling /\ isDragging =>
                /\ camUserTheta' = camUserTheta + dragDX * DragGain
                /\ camUserPhi' = clamp(camUserPhi - dragDY * DragGain,
                                       -UserPhiMax, UserPhiMax))
          /\ (~isScrolling /\ ~isDragging =>
                /\ camUserTheta' = camUserTheta + AutoRotate
                /\ camUserPhi' = camUserPhi) ]_vars

\* C24 witness: after frames of dragging in free-look (phi at its limit), a
\* scrolling frame has shrunk both offsets.
C24_Witness ==
    /\ frames >= 2
    /\ isScrolling
    /\ isDragging
    /\ ~camFree
    /\ camUserTheta > 0
    /\ camUserPhi = RDiv(UserPhiMax * 93, 100)

\* C27 (as claimed): while the hooks are unmounted no listener of theirs is
\* attached to window and no idle timer is pending; while they are mounted there
\* is exactly one listener per event type, however many mounts came before.
C27_TeardownDetaches ==
    /\ (~mounted => listeners = {} /\ timers = {})
    /\ (mounted => \A ty \in EventTypes :
                      Cardinality({l \in listeners : l.type = ty}) = 1)

\* C29 (as claimed): while the pointer is down in free-look, every horizontal
\* displacement a move event reported is either already added to camUserTheta
\* (times 0.004), or waiting in the engine's dragDX for the next frame, or
\* waiting in drag.current for the next tick: none is lost, none counted twice.
C29_DragConserved ==
    (down /\ ~released) =>
        dragApplied + DragGain * ((IF rafTurn = "loop" THEN dragDX ELSE 0) + drag.x)
            = DragGain * moveTotal

=============================================================================
